---- MODULE Spec2Model ----
(***************************************************************************)
(* A model of the recursive-descent parser of rlox (src/parser.rs).        *)
(*                                                                         *)
(* The token cursor (current / next / scanner) is a record that every      *)
(* grammar rule takes and returns, exactly as the Rust methods take        *)
(* `&mut self`.  A rule returns [ok, val, p]: `ok` tells Ok from Err,      *)
(* `val` is the AstNode / Token / list (Ok) or the ParsingError (Err), and *)
(* `p` is the parser after the call.  The `?` operator is Try, which       *)
(* returns the Err of a fallible call at once.                             *)
(***************************************************************************)
EXTENDS Integers, Sequences, FiniteSets

VARIABLES parser, program, errors, result, pc, last

vars == <<parser, program, errors, result, pc, last>>

(***************************************************************************)
(* Bounds of the model.                                                    *)
(***************************************************************************)
\* longest input drawn from every sequence over CoreKinds
MaxLen == 4
\* longest input drawn from every sequence over all token kinds
MaxLenAll == 2
\* the top-level loop is followed until the recorded errors exceed the number
\* of tokens of the input by this many
MaxSpin == 2
\* how many end-of-input tokens the cursor exerciser pulls past the input
MaxPad == 2
\* longest input of the cursor exerciser
MaxCursorLen == 3
\* most operators in a chain of assignments or of prefix operators
MaxChain == 3
\* most tokens between the parentheses of a function declaration
MaxParams == 3
\* most tokens between the parentheses of a for statement drawn from every
\* sequence of identifiers and `;`
MaxHeader == 4

(***************************************************************************)
(* Tokens, spans and the scanner (crate::token, crate::scanner).           *)
(***************************************************************************)
Keywords ==
  {"Var", "Fun", "Print", "If", "While", "For", "Return", "Else",
   "True", "False", "Nil"}

Literals == {"IdentifierLiteral", "NumberLiteral", "StringLiteral"}

Punctuation ==
  {"LeftBrace", "RightBrace", "LeftParen", "RightParen", "Semicolon", "Comma",
   "Equal", "EqualEqual", "BangEqual", "Less", "LessEqual", "Greater",
   "GreaterEqual", "Plus", "Minus", "Star", "Slash", "Bang"}

\* every token kind the parser matches on, except end-of-input
Kinds == Keywords \cup Literals \cup Punctuation

\* the number of source characters of a token of each kind
Width(kind) ==
  CASE kind \in {"Print", "While", "False"} -> 5
    [] kind = "Return" -> 6
    [] kind \in {"Else", "True"} -> 4
    [] kind \in {"Var", "Fun", "For", "Nil"} -> 3
    [] kind \in {"If", "EqualEqual", "BangEqual", "LessEqual", "GreaterEqual"} -> 2
    [] kind = "Eof" -> 0
    [] OTHER -> 1

Span(start, end) == [start |-> start, end |-> end]

Min(S) == CHOOSE x \in S : \A y \in S : x <= y
Max(S) == CHOOSE x \in S : \A y \in S : x >= y

\* Span::merge: the minimal span covering all the given spans
merge(spans) ==
  Span(Min({spans[i].start : i \in DOMAIN spans}),
       Max({spans[i].end : i \in DOMAIN spans}))

RECURSIVE Offset(_, _, _)
\* the source offset of the i-th token: the tokens before it, each followed
\* by `gap` characters of white space
Offset(kinds, gap, i) ==
  IF i = 1 THEN 0
  ELSE Offset(kinds, gap, i - 1) + Width(kinds[i - 1]) + gap

\* a token: its kind, the payload of a literal (here: the position of the
\* lexeme in the source, so that two literals are told apart) and its span
Token(kind, lit, span) == [kind |-> kind, lit |-> lit, span |-> span]

\* the tokens the scanner yields for a source made of the lexemes `kinds`
Lex(kinds, gap) ==
  [i \in 1..Len(kinds) |->
     Token(kinds[i], i,
           Span(Offset(kinds, gap, i), Offset(kinds, gap, i) + Width(kinds[i])))]

\* the end-of-input token, at the end of the source
EofToken(tokens) ==
  LET n == Len(tokens)
      end == IF n = 0 THEN 0 ELSE tokens[n].span.end
  IN Token("Eof", 0, Span(end, end))

\* Scanner::new
NewScanner(tokens) == [tokens |-> tokens, pos |-> 0]

\* Scanner::next().unwrap(): the next token of the source, then end-of-input
\* for ever; pos counts the tokens pulled
ScannerNext(s) ==
  [val |-> IF s.pos < Len(s.tokens) THEN s.tokens[s.pos + 1] ELSE EofToken(s.tokens),
   s |-> [s EXCEPT !.pos = @ + 1]]

\* the k-th token of the padded stream (k >= 1)
Stream(tokens, k) == IF k <= Len(tokens) THEN tokens[k] ELSE EofToken(tokens)

(***************************************************************************)
(* Results and AST nodes (crate::ast, crate::value).                       *)
(***************************************************************************)
Ok(val, p) == [ok |-> TRUE, val |-> val, p |-> p]

ParsingError(message, span) == [message |-> message, span |-> span]

Err(message, span, p) == [ok |-> FALSE, val |-> ParsingError(message, span), p |-> p]

None == [some |-> FALSE]
Some(x) == [some |-> TRUE, val |-> x]

new_statement(stmt, span) == [kind |-> "Statement", node |-> stmt, span |-> span]
new_expression(expr, span) == [kind |-> "Expression", node |-> expr, span |-> span]
\* the payload of an existing node under a new span
new_ast_node(node, span) == [kind |-> node.kind, node |-> node.node, span |-> span]

Value(type, v) == [type |-> type, v |-> v]

(***************************************************************************)
(* The token cursor.                                                       *)
(***************************************************************************)
\* Parser::new over an already scanned source
new(tokens) ==
  LET t1 == ScannerNext(NewScanner(tokens))
      t2 == ScannerNext(t1.s)
  IN [scanner |-> t2.s, current |-> t1.val, next |-> t2.val]

\* advance with the newly pulled token, not peek, made `current`
advance_skip_peek(p) ==
  LET t == ScannerNext(p.scanner)
  IN Ok(p.current, [scanner |-> t.s, current |-> t.val, next |-> t.val])

advance(p) ==
  LET previous == p.current
      t == ScannerNext(p.scanner)
  IN Ok(previous, [scanner |-> t.s, current |-> p.next, next |-> t.val])

\* eat that consumes the token it rejects
eat_consuming(p, kind, message) ==
  IF p.current.kind = kind
  THEN advance(p)
  ELSE Err(message, p.current.span, advance(p).p)

eat(p, kind, message) ==
  IF p.current.kind = kind
  THEN advance(p)
  ELSE Err(message, p.current.span, p)

RECURSIVE synchronize(_)
\* synchronize that stops at `;` and end-of-input only
synchronize_through_braces(p) ==
  IF p.current.kind \in {"Semicolon", "Eof"}
  THEN advance(p).p
  ELSE synchronize(advance(p).p)

synchronize(p) ==
  CASE p.current.kind \in {"Semicolon", "Eof"} -> advance(p).p
    [] p.current.kind \in {"LeftBrace", "RightBrace"} -> p
    [] OTHER -> synchronize(advance(p).p)

(***************************************************************************)
(* Sequencing.  Let(v, K) is `let x = v; K(x)`; Try(r, K) is               *)
(* `let x = r?; K(x)`: an Err is returned at once, an Ok is handed on.     *)
(***************************************************************************)
Let(v, K(_)) == K(v)

Try(r, K(_)) == IF r.ok THEN K(r) ELSE r

(***************************************************************************)
(* The expression grammar.                                                 *)
(***************************************************************************)
RECURSIVE parse(_, _)


Variable(name) == [type |-> "Variable", name |-> name]
Constant(value) == [type |-> "Constant", value |-> value]
Unary(operator, expr) == [type |-> "Unary", operator |-> operator, expression |-> expr]
Binary(left, operator, right) ==
  [type |-> "Binary", left |-> left, operator |-> operator, right |-> right]
Assignment(lvalue, operator, rvalue) ==
  [type |-> "Assignment", lvalue |-> lvalue, operator |-> operator, rvalue |-> rvalue]
Call(target, arguments) == [type |-> "Call", target |-> target, arguments |-> arguments]

number(p) ==
  Let(advance(p), LAMBDA t :
    IF t.val.kind = "NumberLiteral"
    THEN Ok(new_expression(Constant(Value("Number", t.val.lit)), t.val.span), t.p)
    ELSE Err("Expected a NumberLiteral.", t.val.span, t.p))

string(p) ==
  Let(advance(p), LAMBDA t :
    IF t.val.kind = "StringLiteral"
    THEN Ok(new_expression(Constant(Value("String", t.val.lit)), t.val.span), t.p)
    ELSE Err("Expected a StringLiteral.", t.val.span, t.p))

\* a literal keyword: the token is consumed and its span is the node's
constant(p, value) ==
  Let(advance(p), LAMBDA literal :
    Ok(new_expression(Constant(value), literal.val.span), literal.p))

primary(p) ==
  CASE p.current.kind = "LeftParen" ->
         Let(advance(p), LAMBDA lparen :
         Try(parse("expression", lparen.p), LAMBDA expr :
         Try(eat(expr.p, "RightParen", "Expected ')' after expression."), LAMBDA rparen :
           Ok(new_ast_node(expr.val,
                           merge(<<lparen.val.span, expr.val.span, rparen.val.span>>)),
              rparen.p))))
    [] p.current.kind = "IdentifierLiteral" ->
         Let(advance(p), LAMBDA t :
           Ok(new_expression(Variable(p.current.lit), t.val.span), t.p))
    [] p.current.kind = "NumberLiteral" -> parse("number", p)
    [] p.current.kind = "StringLiteral" -> parse("string", p)
    [] p.current.kind = "True" -> constant(p, Value("Bool", 1))
    [] p.current.kind = "False" -> constant(p, Value("Bool", 0))
    [] p.current.kind = "Nil" -> constant(p, Value("Nil", 0))
    [] OTHER -> Err("Expected primary expression.", p.current.span, p)

RECURSIVE argument_list_while(_, _)
argument_list_while(args, p) ==
  IF p.current.kind = "Comma"
  THEN Try(parse("expression", advance(p).p), LAMBDA arg :
         argument_list_while(Append(args, arg.val), arg.p))
  ELSE Ok(args, p)

argument_list(p) ==
  Try(parse("expression", p), LAMBDA arg : argument_list_while(<<arg.val>>, arg.p))

\* the arguments between the parentheses of a call
call_arguments(p) ==
  IF p.current.kind = "RightParen" THEN Ok(<<>>, p) ELSE parse("argument_list", p)

RECURSIVE call_chained_while(_, _)
\* an argument list attached to the node for as long as a `(` follows
call_chained_while(node, p) ==
  IF p.current.kind = "LeftParen"
  THEN Try(call_arguments(advance(p).p), LAMBDA arguments :
       Try(eat(arguments.p, "RightParen", "Expected ')' after argument list."),
           LAMBDA rparen :
         call_chained_while(
           new_expression(Call(node, arguments.val),
                          merge(<<node.span, rparen.val.span>>)),
           rparen.p)))
  ELSE Ok(node, p)

\* call that attaches every argument list that follows the primary
call_chained(p) ==
  Try(parse("primary", p), LAMBDA prim : call_chained_while(prim.val, prim.p))

call(p) ==
  Try(parse("primary", p), LAMBDA prim :
    IF prim.p.current.kind = "LeftParen"
    THEN Try(call_arguments(advance(prim.p).p), LAMBDA arguments :
         Try(eat(arguments.p, "RightParen", "Expected ')' after argument list."),
             LAMBDA rparen :
           Ok(new_expression(Call(prim.val, arguments.val),
                             merge(<<prim.val.span, rparen.val.span>>)),
              rparen.p)))
    ELSE prim)

\* the operand's span moved one character to the right instead of widened
unary_span_shifted(expr) == Span(expr.span.start + 1, expr.span.end + 1)

\* new_span of a unary node: its operand's span and the character before it
unary_span(expr) == Span(expr.span.start - 1, expr.span.end)

unary(p) ==
  IF p.current.kind \in {"Minus", "Bang"}
  THEN Let(advance(p), LAMBDA operator :
       Try(parse("unary", operator.p), LAMBDA expr :
         Ok(new_expression(Unary(operator.val, expr.val), unary_span(expr.val)),
            expr.p)))
  ELSE parse("call", p)

\* a Binary node over left and right, its span the merge of the three parts
binary(left, operator, right) ==
  new_expression(Binary(left, operator, right),
                 merge(<<left.span, operator.span, right.span>>))

RECURSIVE multiplication_while(_, _)
\* the loop of multiplication with its right operand parsed by addition
multiplication_while_loose(node, p) ==
  IF p.current.kind = "Star" \/ p.current.kind = "Slash"
  THEN Let(advance(p), LAMBDA operator :
       Try(parse("addition", operator.p), LAMBDA right :
         multiplication_while(binary(node, operator.val, right.val), right.p)))
  ELSE Ok(node, p)

multiplication_while(node, p) ==
  IF p.current.kind = "Star" \/ p.current.kind = "Slash"
  THEN Let(advance(p), LAMBDA operator :
       Try(parse("unary", operator.p), LAMBDA right :
         multiplication_while(binary(node, operator.val, right.val), right.p)))
  ELSE Ok(node, p)

multiplication(p) ==
  Try(parse("unary", p), LAMBDA node : multiplication_while(node.val, node.p))

RECURSIVE addition_while(_, _)
\* the loop of addition with its right operand parsed by addition itself
addition_while_right(node, p) ==
  IF p.current.kind = "Plus" \/ p.current.kind = "Minus"
  THEN Let(advance(p), LAMBDA operator :
       Try(parse("addition", operator.p), LAMBDA right :
         addition_while(binary(node, operator.val, right.val), right.p)))
  ELSE Ok(node, p)

addition_while(node, p) ==
  IF p.current.kind = "Plus" \/ p.current.kind = "Minus"
  THEN Let(advance(p), LAMBDA operator :
       Try(parse("multiplication", operator.p), LAMBDA right :
         addition_while(binary(node, operator.val, right.val), right.p)))
  ELSE Ok(node, p)

addition(p) ==
  Try(parse("multiplication", p), LAMBDA node : addition_while(node.val, node.p))

RECURSIVE comparison_while(_, _)
comparison_while(node, p) ==
  IF p.current.kind \in {"Less", "LessEqual", "Greater", "GreaterEqual"}
  THEN Let(advance(p), LAMBDA operator :
       Try(parse("addition", operator.p), LAMBDA right :
         comparison_while(binary(node, operator.val, right.val), right.p)))
  ELSE Ok(node, p)

comparison(p) ==
  Try(parse("addition", p), LAMBDA node : comparison_while(node.val, node.p))

RECURSIVE equality_while(_, _)
equality_while(node, p) ==
  IF p.current.kind \in {"EqualEqual", "BangEqual"}
  THEN Let(advance(p), LAMBDA operator :
       Try(parse("comparison", operator.p), LAMBDA right :
         equality_while(binary(node, operator.val, right.val), right.p)))
  ELSE Ok(node, p)

equality(p) ==
  Try(parse("comparison", p), LAMBDA node : equality_while(node.val, node.p))

logic_and(p) == parse("equality", p)

logic_or(p) == parse("logic_and", p)

\* assignment with its right-hand side parsed by the next tighter rule
assignment_flat(p) ==
  Try(parse("logic_or", p), LAMBDA node :
    IF node.p.current.kind = "Equal"
    THEN Let(advance(node.p), LAMBDA operator :
         Try(parse("logic_or", operator.p), LAMBDA rvalue :
           Ok(new_expression(
                Assignment(node.val, operator.val, rvalue.val),
                merge(<<node.val.span, operator.val.span, rvalue.val.span>>)),
              rvalue.p)))
    ELSE node)

assignment(p) ==
  Try(parse("logic_or", p), LAMBDA node :
    IF node.p.current.kind = "Equal"
    THEN Let(advance(node.p), LAMBDA operator :
         Try(parse("assignment", operator.p), LAMBDA rvalue :
           Ok(new_expression(
                Assignment(node.val, operator.val, rvalue.val),
                merge(<<node.val.span, operator.val.span, rvalue.val.span>>)),
              rvalue.p)))
    ELSE node)

expression(p) == parse("assignment", p)

(***************************************************************************)
(* The statement grammar.                                                  *)
(***************************************************************************)

Declaration(name, initializer) ==
  [type |-> "Declaration", name |-> name, initializer |-> initializer]
FunDeclaration(name, parameters, body) ==
  [type |-> "FunDeclaration", name |-> name, parameters |-> parameters, body |-> body]
Block(declarations, rbrace) ==
  [type |-> "Block", declarations |-> declarations, rbrace |-> rbrace]
PrintStmt(expr) == [type |-> "Print", expression |-> expr]
If(condition, if_block, else_block) ==
  [type |-> "If", condition |-> condition, if_block |-> if_block,
   else_block |-> else_block]
While(condition, block) == [type |-> "While", condition |-> condition, block |-> block]
For(initializer, condition, update, block) ==
  [type |-> "For", initializer |-> initializer, condition |-> condition,
   update |-> update, block |-> block]
Return(value) == [type |-> "Return", value |-> value]
ExpressionStmt(expr) == [type |-> "Expression", expression |-> expr]

\* `Some(Box::new(rule()?))`
Boxed(r) == IF r.ok THEN Ok(Some(r.val), r.p) ELSE r

\* Ok((id, span)) is Ok of the identifier token: its payload and its span
id_token(p) ==
  Let(advance(p), LAMBDA t :
    IF t.val.kind = "IdentifierLiteral"
    THEN Ok(t.val, t.p)
    ELSE Err("Expected identifier.", t.val.span, t.p))

\* the optional `= expression` of a variable declaration
var_initializer(p) ==
  IF p.current.kind = "Equal"
  THEN Boxed(parse("expression", advance(p).p))
  ELSE Ok(None, p)

var_declaration(p) ==
  Let(advance(p), LAMBDA keyword :
  Try(parse("id_token", keyword.p), LAMBDA name :
  Try(var_initializer(name.p), LAMBDA initializer :
  Try(eat(initializer.p, "Semicolon", "Expected ';' after declaration."), LAMBDA semi :
    Ok(new_statement(Declaration(name.val.lit, initializer.val),
                     merge(<<keyword.val.span, semi.val.span>>)),
       semi.p)))))

RECURSIVE parameter_list_while(_, _)
\* the loop of parameter_list pushing the token after a `,` whatever its kind
parameter_list_while_unchecked(parameters, p) ==
  IF p.current.kind = "Comma"
  THEN Let(advance(advance(p).p), LAMBDA param_name :
         parameter_list_while(Append(parameters, param_name.val), param_name.p))
  ELSE Ok(parameters, p)

parameter_list_while(parameters, p) ==
  IF p.current.kind = "Comma"
  THEN Let(advance(advance(p).p), LAMBDA param_name :
         IF param_name.val.kind = "IdentifierLiteral"
         THEN parameter_list_while(Append(parameters, param_name.val), param_name.p)
         ELSE Err("Expected parameter name.", param_name.val.span, param_name.p))
  ELSE Ok(parameters, p)

\* parameter_list that consumes its first token without keeping it
parameter_list_first_dropped(p) ==
  Let(advance(p), LAMBDA first : parameter_list_while(<<>>, first.p))

parameter_list(p) ==
  Let(advance(p), LAMBDA first : parameter_list_while(<<first.val>>, first.p))

RECURSIVE block_statement_loop(_, _)
block_statement_loop(declarations, p) ==
  IF p.current.kind \in {"RightBrace", "Eof"}
  THEN Ok(declarations, p)
  ELSE Try(parse("declaration", p), LAMBDA decl :
         block_statement_loop(Append(declarations, decl.val), decl.p))

block_statement(p) ==
  Let(advance(p), LAMBDA lbrace :
  Try(block_statement_loop(<<>>, lbrace.p), LAMBDA declarations :
  Try(eat(declarations.p, "RightBrace", "Expected '}' after block statement"),
      LAMBDA rbrace :
    Ok(new_statement(Block(declarations.val, rbrace.val),
                     merge(<<lbrace.val.span, rbrace.val.span>>)),
       rbrace.p))))

\* the parameters between the parentheses of a function declaration
function_parameters(p) ==
  CASE p.current.kind = "RightParen" -> Ok(<<>>, p)
    [] p.current.kind = "IdentifierLiteral" -> parse("parameter_list", p)
    [] OTHER -> Err("Expected parameter list or ')'.", p.current.span, p)

function(p) ==
  Try(parse("id_token", p), LAMBDA name :
  Try(eat(name.p, "LeftParen", "Expected '(' after function name"), LAMBDA lparen :
  Try(function_parameters(lparen.p), LAMBDA parameters :
  Try(eat(parameters.p, "RightParen", "Expected ')' after formal parameter list"),
      LAMBDA rparen :
  Try(parse("block_statement", rparen.p), LAMBDA body :
    Ok(new_statement(FunDeclaration(name.val.lit, parameters.val, body.val),
                     merge(<<name.val.span, body.val.span>>)),
       body.p))))))

expression_statement(p) ==
  Try(parse("expression", p), LAMBDA expr :
  Try(eat(expr.p, "Semicolon", "Expected ';' after expression"), LAMBDA semi :
    Ok(new_statement(ExpressionStmt(expr.val),
                     merge(<<expr.val.span, semi.val.span>>)),
       semi.p)))

\* (value, span) of a return statement whose keyword has been consumed
return_value(keyword) ==
  IF keyword.p.current.kind = "Semicolon"
  THEN Ok(<<None, keyword.val.span>>, keyword.p)
  ELSE Try(parse("expression", keyword.p), LAMBDA expr :
         Ok(<<Some(expr.val), merge(<<keyword.val.span, expr.val.span>>)>>, expr.p))

return_statement(p) ==
  Try(return_value(advance(p)), LAMBDA value :
  Try(eat(value.p, "Semicolon", "Expected ';' after return statement."), LAMBDA semi :
    Ok(new_statement(Return(value.val[1]), value.val[2]), semi.p)))

print_statement(p) ==
  Let(advance(p), LAMBDA keyword :
  Try(parse("expression", keyword.p), LAMBDA expr :
  Try(eat(expr.p, "Semicolon", "Expected ';' after print statement"), LAMBDA semi :
    Ok(new_statement(PrintStmt(expr.val),
                     merge(<<keyword.val.span, expr.val.span, semi.val.span>>)),
       semi.p))))

while_statement(p) ==
  Let(advance(p), LAMBDA keyword :
  Try(eat(keyword.p, "LeftParen", "Expected '(' after 'while.'"), LAMBDA lparen :
  Try(parse("expression", lparen.p), LAMBDA condition :
  Try(eat(condition.p, "RightParen", "Expected ')' after while condition."),
      LAMBDA rparen :
  Try(parse("statement", rparen.p), LAMBDA block :
    Ok(new_statement(While(condition.val, block.val),
                     merge(<<keyword.val.span, block.val.span>>)),
       block.p))))))

\* the optional else-branch of an if statement whose span so far is `span`:
\* Ok((else_block, span))
\* else_block with the else-branch parsed as an expression statement
else_block_flat(p, span) ==
  IF p.current.kind = "Else"
  THEN Try(parse("expression_statement", advance(p).p), LAMBDA stmt :
         Ok(<<Some(stmt.val), merge(<<span, stmt.val.span>>)>>, stmt.p))
  ELSE Ok(<<None, span>>, p)

else_block(p, span) ==
  IF p.current.kind = "Else"
  THEN Try(parse("statement", advance(p).p), LAMBDA stmt :
         Ok(<<Some(stmt.val), merge(<<span, stmt.val.span>>)>>, stmt.p))
  ELSE Ok(<<None, span>>, p)

if_statement(p) ==
  Let(advance(p), LAMBDA keyword :
  Try(eat(keyword.p, "LeftParen", "Expected '(' after 'if.'"), LAMBDA lparen :
  Try(parse("expression", lparen.p), LAMBDA condition :
  Try(eat(condition.p, "RightParen", "Expected ')' after if condition."), LAMBDA rparen :
  Try(parse("statement", rparen.p), LAMBDA if_block :
  Try(else_block(if_block.p, merge(<<keyword.val.span, if_block.val.span>>)),
      LAMBDA else :
    Ok(new_statement(If(condition.val, if_block.val, else.val[1]), else.val[2]),
       else.p)))))))

\* the three header clauses of a for statement, each Ok(Option<node>)
\* for_initializer that leaves the `;` of an absent initializer in place
for_initializer_unconsumed(p) ==
  CASE p.current.kind = "Var" -> Boxed(parse("var_declaration", p))
    [] p.current.kind = "Semicolon" -> Ok(None, p)
    [] OTHER -> Boxed(parse("expression_statement", p))

for_initializer(p) ==
  CASE p.current.kind = "Var" -> Boxed(parse("var_declaration", p))
    [] p.current.kind = "Semicolon" -> Ok(None, advance(p).p)
    [] OTHER -> Boxed(parse("expression_statement", p))

for_condition(p) ==
  IF p.current.kind = "Semicolon" THEN Ok(None, p) ELSE Boxed(parse("expression", p))

for_update(p) ==
  IF p.current.kind = "RightParen" THEN Ok(None, p) ELSE Boxed(parse("expression", p))

for_statement(p) ==
  Let(advance(p), LAMBDA keyword :
  Try(eat(keyword.p, "LeftParen", "Expected '(' after 'for.'"), LAMBDA lparen :
  Try(for_initializer(lparen.p), LAMBDA initializer :
  Try(for_condition(initializer.p), LAMBDA condition :
  Try(eat(condition.p, "Semicolon", "Expected ';' after for condition."), LAMBDA semi :
  Try(for_update(semi.p), LAMBDA update :
  Try(eat(update.p, "RightParen", "Expected ')' before for block."), LAMBDA rparen :
  Try(parse("statement", rparen.p), LAMBDA block :
    Ok(new_statement(For(initializer.val, condition.val, update.val, block.val),
                     merge(<<keyword.val.span, block.val.span>>)),
       block.p)))))))))

statement(p) ==
  CASE p.current.kind = "Print" -> parse("print_statement", p)
    [] p.current.kind = "LeftBrace" -> parse("block_statement", p)
    [] p.current.kind = "If" -> parse("if_statement", p)
    [] p.current.kind = "While" -> parse("while_statement", p)
    [] p.current.kind = "For" -> parse("for_statement", p)
    [] p.current.kind = "Return" -> parse("return_statement", p)
    [] OTHER -> parse("expression_statement", p)

declaration(p) ==
  CASE p.current.kind = "Var" -> parse("var_declaration", p)
    [] p.current.kind = "Fun" -> parse("function", advance(p).p)
    [] OTHER -> parse("statement", p)

\* self.rule(): every call from one grammar rule to another goes through here
parse(rule, p) ==
  CASE rule = "number" -> number(p)
    [] rule = "string" -> string(p)
    [] rule = "primary" -> primary(p)
    [] rule = "argument_list" -> argument_list(p)
    [] rule = "call" -> call(p)
    [] rule = "unary" -> unary(p)
    [] rule = "multiplication" -> multiplication(p)
    [] rule = "addition" -> addition(p)
    [] rule = "comparison" -> comparison(p)
    [] rule = "equality" -> equality(p)
    [] rule = "logic_and" -> logic_and(p)
    [] rule = "logic_or" -> logic_or(p)
    [] rule = "assignment" -> assignment(p)
    [] rule = "expression" -> expression(p)
    [] rule = "id_token" -> id_token(p)
    [] rule = "var_declaration" -> var_declaration(p)
    [] rule = "parameter_list" -> parameter_list(p)
    [] rule = "block_statement" -> block_statement(p)
    [] rule = "function" -> function(p)
    [] rule = "expression_statement" -> expression_statement(p)
    [] rule = "return_statement" -> return_statement(p)
    [] rule = "print_statement" -> print_statement(p)
    [] rule = "while_statement" -> while_statement(p)
    [] rule = "if_statement" -> if_statement(p)
    [] rule = "for_statement" -> for_statement(p)
    [] rule = "statement" -> statement(p)
    [] rule = "declaration" -> declaration(p)

(***************************************************************************)
(* The inputs: token streams the scanner can hand to the parser.           *)
(***************************************************************************)
SeqsUpTo(S, n) == UNION {[1..k -> S] : k \in 0..n}

\* white space between two lexemes: none, or one character
Gaps == {0, 1}

CoreKinds ==
  {"Var", "IdentifierLiteral", "Equal", "NumberLiteral", "Semicolon",
   "LeftBrace", "RightBrace"}

Operands == {<<"NumberLiteral">>, <<"IdentifierLiteral">>}

BinaryOperators ==
  {"EqualEqual", "BangEqual", "Less", "LessEqual", "Greater", "GreaterEqual",
   "Plus", "Minus", "Star", "Slash"}

\* e1 op1 e2 op2 e3 ;
ChainInputs ==
  {a \o <<op1>> \o b \o <<op2>> \o c \o <<"Semicolon">> :
     a \in Operands, b \in Operands, c \in Operands,
     op1 \in BinaryOperators, op2 \in BinaryOperators}

\* expressions of one operator over the operands, and those under one more
\* prefix operator or pair of parentheses
Expr1 ==
  Operands
  \cup {<<op>> \o e : op \in {"Minus", "Bang"}, e \in Operands}
  \cup {<<"LeftParen">> \o e \o <<"RightParen">> : e \in Operands}
  \cup {<<"IdentifierLiteral", "LeftParen", "RightParen">>}
  \cup {<<"IdentifierLiteral", "LeftParen">> \o e \o <<"RightParen">> : e \in Operands}
  \cup {<<"IdentifierLiteral", "LeftParen">> \o e \o <<"Comma">> \o f \o <<"RightParen">> :
          e \in Operands, f \in Operands}
  \cup {e \o <<op>> \o f : e \in Operands, f \in Operands, op \in {"Plus", "Equal"}}
  \cup {<<"True">>, <<"False">>, <<"Nil">>, <<"StringLiteral">>}

Expr2 ==
  Expr1
  \cup {<<op>> \o e : op \in {"Minus", "Bang"}, e \in Expr1}
  \cup {<<"LeftParen">> \o e \o <<"RightParen">> : e \in Expr1}

SimpleStatements ==
  {e \o <<"Semicolon">> : e \in Expr2}
  \cup {<<"Print">> \o e \o <<"Semicolon">> : e \in Expr2}
  \cup {<<"Return">> \o e \o <<"Semicolon">> : e \in Expr2}
  \cup {<<"Var", "IdentifierLiteral", "Equal">> \o e \o <<"Semicolon">> : e \in Expr2}
  \cup {<<"Return", "Semicolon">>, <<"Var", "IdentifierLiteral", "Semicolon">>}

\* the statements nested in the compound ones
Bodies ==
  {<<"IdentifierLiteral", "Semicolon">>, <<"Return", "Semicolon">>,
   <<"LeftBrace", "RightBrace">>, <<"Var", "IdentifierLiteral", "Semicolon">>}

ForInitializers ==
  {<<"Semicolon">>, <<"IdentifierLiteral", "Semicolon">>,
   <<"Var", "IdentifierLiteral", "Equal", "NumberLiteral", "Semicolon">>}

Optional(e) == {<<>>, e}

ParameterLists ==
  {<<>>, <<"IdentifierLiteral">>,
   <<"IdentifierLiteral", "Comma", "IdentifierLiteral">>}

\* for ( initializer condition ; update ) body, each clause there or not
ForStatements ==
  {<<"For", "LeftParen">> \o i \o c \o <<"Semicolon">> \o u \o <<"RightParen">> \o b :
     i \in ForInitializers, c \in Optional(<<"IdentifierLiteral">>),
     u \in Optional(<<"IdentifierLiteral">>), b \in Bodies}

\* for ( ... ) x ;  with any identifiers and `;` between the parentheses
ForHeaders ==
  {<<"For", "LeftParen">> \o h \o <<"RightParen", "IdentifierLiteral", "Semicolon">> :
     h \in SeqsUpTo({"Semicolon", "IdentifierLiteral"}, MaxHeader)}

CompoundStatements ==
  {<<"LeftBrace">> \o b \o c \o <<"RightBrace">> : b \in Bodies, c \in Optional(<<"IdentifierLiteral", "Semicolon">>)}
  \cup {<<"If", "LeftParen">> \o e \o <<"RightParen">> \o b \o c :
          e \in Operands, b \in Bodies,
          c \in {<<>>} \cup {<<"Else">> \o d : d \in Bodies}}
  \cup {<<"While", "LeftParen">> \o e \o <<"RightParen">> \o b :
          e \in Operands, b \in Bodies}
  \cup ForStatements
  \cup {<<"Fun", "IdentifierLiteral", "LeftParen">> \o ps
          \o <<"RightParen", "LeftBrace">> \o b \o <<"RightBrace">> :
          ps \in ParameterLists, b \in Optional(<<"Return", "NumberLiteral", "Semicolon">>)}

RECURSIVE Power(_, _)
\* the concatenations of k sequences of U
Power(U, k) == IF k = 0 THEN {<<>>} ELSE {u \o r : u \in U, r \in Power(U, k - 1)}

\* e1 = e2 = ... = en ;  with one to MaxChain `=`
AssignmentChains ==
  UNION {{c \o e \o <<"Semicolon">> :
            c \in Power({l \o <<"Equal">> : l \in Operands}, k), e \in Operands} :
         k \in 1..MaxChain}

\* op1 op2 ... e ;  with one to MaxChain prefix operators
PrefixChains ==
  UNION {{c \o e \o <<"Semicolon">> :
            c \in Power({<<"Minus">>, <<"Bang">>}, k), e \in Operands} :
         k \in 1..MaxChain}

FunctionHeader == <<"Fun", "IdentifierLiteral", "LeftParen">>

ParameterKinds == {"IdentifierLiteral", "Comma", "NumberLiteral"}

\* fun f ( ... ) { }  with any tokens of ParameterKinds between the parentheses
FunctionInputs ==
  {FunctionHeader \o ps \o <<"RightParen", "LeftBrace", "RightBrace">> :
     ps \in SeqsUpTo(ParameterKinds, MaxParams)}

\* the infix operators: the binary ones and `=`
InfixOperators == BinaryOperators \cup {"Equal"}

\* e1 op1 e2 op2 e3 ;  with one of the operators `=`
MixedChains ==
  {a \o <<op1>> \o b \o <<op2>> \o c \o <<"Semicolon">> :
     a \in Operands, b \in Operands, c \in Operands,
     op1 \in InfixOperators, op2 \in InfixOperators} \ ChainInputs

\* u e1 op e2 ;  and  u f ( e ) ;  with u a prefix operator
PrefixedInputs ==
  {<<u>> \o a \o <<op>> \o b \o <<"Semicolon">> :
     u \in {"Minus", "Bang"}, a \in Operands, b \in Operands, op \in InfixOperators}
  \cup {<<u, "IdentifierLiteral", "LeftParen">> \o a \o <<"RightParen", "Semicolon">> :
          u \in {"Minus", "Bang"}, a \in Operands}

\* the arguments of a call, without the parentheses
Arguments ==
  {<<>>} \cup Operands \cup {a \o <<"Comma">> \o b : a \in Operands, b \in Operands}

\* f ( args ) ;  and  f ( args ) ( args ) ;
CallInputs ==
  {<<"IdentifierLiteral", "LeftParen">> \o a \o <<"RightParen">> \o c \o <<"Semicolon">> :
     a \in Arguments,
     c \in {<<>>} \cup {<<"LeftParen">> \o b \o <<"RightParen">> : b \in Arguments}}

IfHeader == <<"If", "LeftParen", "IdentifierLiteral", "RightParen">>

\* the branches of the nested if statements
Branches == {<<"IdentifierLiteral", "Semicolon">>, <<"LeftBrace", "RightBrace">>}

ElseBranches == {<<"Else">> \o b : b \in Branches}

\* if ( a ) if ( b ) x  with no, one or two else-branches after it
NestedIfs ==
  {IfHeader \o IfHeader \o x \o e : x \in Branches,
     e \in {<<>>} \cup ElseBranches \cup {e1 \o e2 : e1 \in ElseBranches, e2 \in ElseBranches}}

\* if ( a ) x else if ( b ) y  with or without a last else-branch
ElseIfs ==
  {IfHeader \o x \o <<"Else">> \o IfHeader \o y \o e :
     x \in Branches, y \in Branches, e \in {<<>>} \cup ElseBranches}

\* the declarations of the programs of two
TopLevel ==
  Bodies
  \cup {<<"Minus", "IdentifierLiteral", "Semicolon">>,
        <<"Bang", "Minus", "NumberLiteral", "Semicolon">>,
        <<"Fun", "IdentifierLiteral", "LeftParen", "RightParen", "LeftBrace",
          "RightBrace">>}

\* programs of two top-level declarations
Programs == {a \o b : a \in TopLevel, b \in TopLevel}

\* every input the model parses
Inputs ==
  SeqsUpTo(CoreKinds, MaxLen) \cup SeqsUpTo(Kinds, MaxLenAll)
  \cup ChainInputs \cup SimpleStatements \cup CompoundStatements
  \cup AssignmentChains \cup PrefixChains \cup FunctionInputs \cup Programs
  \cup MixedChains \cup PrefixedInputs \cup CallInputs \cup ForHeaders
  \cup NestedIfs \cup ElseIfs

(***************************************************************************)
(* parse_program, one iteration of its loop at a time.                     *)
(***************************************************************************)
NoCall == [op |-> "none"]

\* the source the parser was built on, and the place of `current` in it
Tokens == parser.scanner.tokens
Position(p) == p.scanner.pos - 1

Init ==
  /\ \E kinds \in Inputs, gap \in Gaps : parser = new(Lex(kinds, gap))
  /\ program = <<>>
  /\ errors = <<>>
  /\ result = None
  /\ pc = "loop"
  /\ last = NoCall

\* the loop's condition holds and declaration() returns Ok(decl)
DeclarationOk ==
  /\ pc = "loop"
  /\ parser.current.kind # "Eof"
  /\ LET decl == declaration(parser)
     IN /\ decl.ok
        /\ program' = Append(program, decl.val)
        /\ parser' = decl.p
        /\ last' = [op |-> "declaration", before |-> parser, ret |-> decl]
  /\ UNCHANGED <<errors, result, pc>>

\* the loop's condition holds and declaration() returns Err(err); the loop is
\* followed while the errors are fewer than the tokens plus MaxSpin
DeclarationErr ==
  /\ pc = "loop"
  /\ parser.current.kind # "Eof"
  /\ Len(errors) < Len(Tokens) + MaxSpin
  /\ LET err == declaration(parser)
     IN /\ ~err.ok
        /\ parser' = synchronize(err.p)
        /\ errors' = Append(errors, err.val)
        /\ last' = [op |-> "declaration", before |-> parser, ret |-> err]
  /\ UNCHANGED <<program, result, pc>>

\* the result with only the first error drained
parse_program_result_first_error(prog, errs) ==
  IF errs = <<>>
  THEN [ok |-> TRUE, val |-> prog]
  ELSE [ok |-> FALSE, val |-> <<errs[1]>>]

\* the result without the node parsed last
parse_program_result_short(prog, errs) ==
  IF errs = <<>>
  THEN [ok |-> TRUE, val |-> SubSeq(prog, 1, Len(prog) - 1)]
  ELSE [ok |-> FALSE, val |-> [i \in 1..Len(errs) |-> errs[i]]]

parse_program_result(prog, errs) ==
  IF errs = <<>>
  THEN [ok |-> TRUE, val |-> prog]
  ELSE [ok |-> FALSE, val |-> [i \in 1..Len(errs) |-> errs[i]]]

\* the loop's condition fails: parse_program returns
Finish ==
  /\ pc = "loop"
  /\ parser.current.kind = "Eof"
  /\ result' = Some(parse_program_result(program, errors))
  /\ pc' = "done"
  /\ last' = [op |-> "return"]
  /\ UNCHANGED <<parser, program, errors>>

Next == DeclarationOk \/ DeclarationErr \/ Finish

Spec == Init /\ [][Next]_vars

(***************************************************************************)
(* The cursor primitives on their own: advance, eat and synchronize called *)
(* in any order from any place of the stream.                              *)
(***************************************************************************)
CursorKinds ==
  {"Semicolon", "LeftBrace", "RightBrace", "RightParen", "IdentifierLiteral"}

\* the (kind, message) pairs the grammar rules pass to eat
EatCalls ==
  {<<"Semicolon", "Expected ';' after declaration.">>,
   <<"Semicolon", "Expected ';' after expression">>,
   <<"LeftParen", "Expected '(' after function name">>,
   <<"RightParen", "Expected ')' after expression.">>,
   <<"RightBrace", "Expected '}' after block statement">>}

CursorInit ==
  /\ \E kinds \in SeqsUpTo(CursorKinds, MaxCursorLen), gap \in Gaps :
       parser = new(Lex(kinds, gap))
  /\ program = <<>>
  /\ errors = <<>>
  /\ result = None
  /\ pc = "cursor"
  /\ last = NoCall

\* the exerciser stops MaxPad tokens after the end of the input
InReach == Position(parser) < Len(Tokens) + MaxPad

Advance ==
  /\ pc = "cursor"
  /\ InReach
  /\ LET ret == advance(parser)
     IN /\ parser' = ret.p
        /\ last' = [op |-> "advance", before |-> parser, ret |-> ret]
  /\ UNCHANGED <<program, errors, result, pc>>

Eat ==
  /\ pc = "cursor"
  /\ InReach
  /\ \E args \in EatCalls :
       LET ret == eat(parser, args[1], args[2])
       IN /\ parser' = ret.p
          /\ last' = [op |-> "eat", before |-> parser, ret |-> ret,
                      kind |-> args[1], message |-> args[2]]
  /\ UNCHANGED <<program, errors, result, pc>>

Synchronize ==
  /\ pc = "cursor"
  /\ InReach
  /\ parser' = synchronize(parser)
  /\ last' = [op |-> "synchronize", before |-> parser]
  /\ UNCHANGED <<program, errors, result, pc>>

CursorNext == Advance \/ Eat \/ Synchronize

CursorSpec == CursorInit /\ [][CursorNext]_vars

(***************************************************************************)
(* Properties.                                                             *)
(***************************************************************************)
KindsOf(tokens) == [i \in 1..Len(tokens) |-> tokens[i].kind]

\* some iteration of parse_program's loop has just run
Iterated == last.op = "declaration"

\* C1: parse_program terminates on every finite input.  The loop body reads
\* nothing but the cursor and is deterministic, and the loop ends when
\* `current` is end-of-input, so parse_program terminates exactly when no
\* iteration of its loop leaves the cursor where it found it: every
\* iteration consumes at least one token.
C1_EveryIterationConsumes ==
  Iterated => Position(parser) > Position(last.before)

\* C2: parse_program returns Ok(program) if and only if no error was
\* recorded; otherwise it returns Err of all the recorded errors, in the
\* order recorded, which are at least one, and none of the parsed nodes.
C2_OkIffNoErrors ==
  pc = "done" =>
    /\ result.val.ok <=> errors = <<>>
    /\ result.val.ok => result.val.val = program
    /\ ~result.val.ok => (result.val.val = errors /\ Len(result.val.val) > 0)

\* parse_program has returned Err although a node was parsed, and more than
\* one error was recorded
C2_Witness ==
  /\ pc = "done"
  /\ ~result.val.ok
  /\ Len(program) > 0
  /\ Len(errors) > 1

\* C3: one error per malformed statement: `var ; var ;` yields exactly two
\* errors, both "Expected identifier.".
C3_VarSemiVarSemi ==
  (pc = "done"
   /\ KindsOf(Tokens) = <<"Var", "Semicolon", "Var", "Semicolon">>) =>
    /\ ~result.val.ok
    /\ Len(result.val.val) = 2
    /\ \A i \in 1..Len(result.val.val) :
         result.val.val[i].message = "Expected identifier."

RECURSIVE AcceptsFrom(_)
\* the declarations from p on all parse, up to end-of-input
AcceptsFrom(p) ==
  IF p.current.kind = "Eof" THEN TRUE
  ELSE LET decl == declaration(p) IN decl.ok /\ AcceptsFrom(decl.p)

Accepts(kinds) == AcceptsFrom(new(Lex(kinds, 0)))

InsertAt(kinds, i, kind) ==
  SubSeq(kinds, 1, i - 1) \o <<kind>> \o SubSeq(kinds, i, Len(kinds))

\* the places of the input where a `;` is all that is missing: the input is
\* rejected, and accepted with a `;` put in front of the i-th token
MissingSemicolon ==
  IF Accepts(KindsOf(Tokens)) THEN {}
  ELSE {i \in 1..(Len(Tokens) + 1) :
          Accepts(InsertAt(KindsOf(Tokens), i, "Semicolon"))}

\* C4: an input whose only defect is a missing `;` produces exactly one
\* error, whose span is the span of the token found where the `;` was
\* required: never a second error, one error when parse_program returns, and
\* (C4_VarWithoutSemicolon) for `var x = 1` the message
\* "Expected ';' after declaration." at the span of end-of-input.
C4_MissingSemicolonOneError ==
  MissingSemicolon # {} =>
    /\ Len(errors) <= 1
    /\ pc = "done" => Len(errors) = 1
    /\ Len(errors) >= 1 =>
         \E i \in MissingSemicolon : errors[1].span = Stream(Tokens, i).span

C4_VarWithoutSemicolon ==
  (pc = "done"
   /\ KindsOf(Tokens) = <<"Var", "IdentifierLiteral", "Equal", "NumberLiteral">>) =>
    /\ ~result.val.ok
    /\ result.val.val =
         <<ParsingError("Expected ';' after declaration.", EofToken(Tokens).span)>>

\* the kinds synchronize stops at
Boundaries == {"Semicolon", "LeftBrace", "RightBrace", "Eof"}

RECURSIVE RunLength(_, _)
\* the length of the longest run of tokens from the k-th on that holds no
\* boundary
RunLength(tokens, k) ==
  IF Stream(tokens, k).kind \in Boundaries THEN 0 ELSE 1 + RunLength(tokens, k + 1)

\* synchronize has just been called
Synchronized == last.op = "synchronize"

\* the token synchronize stops at when called where last.before stands
StopPlace == Position(last.before) + RunLength(Tokens, Position(last.before))

\* C5: from any place synchronize returns, having discarded exactly the
\* longest run of tokens that are none of `;`, `{`, `}`, end-of-input; it
\* consumes the token that ends the run if and only if it is `;` or
\* end-of-input, and leaves a `{` or `}` as `current`.
C5_SynchronizeStopsAtBoundary ==
  Synchronized =>
    LET stop == Stream(Tokens, StopPlace)
    IN /\ stop.kind \in {"Semicolon", "Eof"} =>
            (Position(parser) = StopPlace + 1
             /\ parser.current = Stream(Tokens, StopPlace + 1))
       /\ stop.kind \in {"LeftBrace", "RightBrace"} =>
            (Position(parser) = StopPlace /\ parser.current = stop)

\* synchronize has discarded a token and stopped at a `}` it left in place
C5_Witness ==
  /\ Synchronized
  /\ StopPlace > Position(last.before)
  /\ parser.current.kind = "RightBrace"
  /\ Position(parser) = StopPlace

\* eat has just been called
Ate == last.op = "eat"

\* C6: eat(kind, message), when `current` is of the expected kind, returns
\* `current` and has the effect of advance (peek becomes current, one token
\* is pulled); otherwise it returns the ParsingError of the caller's message
\* at current's span and leaves the cursor as it was.
C6_EatAdvancesOrLeaves ==
  Ate =>
    IF last.before.current.kind = last.kind
    THEN /\ last.ret.ok
         /\ last.ret.val = last.before.current
         /\ parser.current = last.before.next
         /\ parser.next = Stream(Tokens, Position(last.before) + 2)
         /\ parser.scanner.pos = last.before.scanner.pos + 1
    ELSE /\ ~last.ret.ok
         /\ last.ret.val = ParsingError(last.message, last.before.current.span)
         /\ parser = last.before

\* eat has failed on a token of the input that is not the expected one
C6_Witness ==
  /\ Ate
  /\ ~last.ret.ok
  /\ last.before.current.kind \notin {"Eof", last.kind}
  /\ parser.current = last.before.current

\* advance has just been called
Advanced == last.op = "advance"

\* C7: `current` and `peek` are two neighbours of the padded stream; advance
\* returns the token that was `current`, peek becomes `current`, and one
\* token is pulled; with end-of-input as `current`, advance returns
\* end-of-input and leaves end-of-input as `current`; advance never fails.
C7_CursorWindow ==
  /\ parser.current = Stream(Tokens, Position(parser))
  /\ parser.next = Stream(Tokens, Position(parser) + 1)
  /\ Advanced =>
       /\ last.ret.ok
       /\ last.ret.val = last.before.current
       /\ parser.current = last.before.next
       /\ Position(parser) = Position(last.before) + 1
       /\ last.before.current.kind = "Eof" =>
            (last.ret.val.kind = "Eof" /\ parser.current.kind = "Eof")

\* advance was called with end-of-input as `current`, past a non-empty input
C7_Witness ==
  /\ Advanced
  /\ last.before.current.kind = "Eof"
  /\ Len(Tokens) > 0
  /\ Position(parser) > Len(Tokens) + 1

\* the k-th to the l-th token of the stream, as one span
Cover(k, l) == Span(Stream(Tokens, k).span.start, Stream(Tokens, l).span.end)

\* an iteration of the loop has just parsed a declaration
Parsed == Iterated /\ last.ret.ok

\* C8: the span of a node is the minimal span covering all the tokens its
\* rule consumed, keyword, delimiters and terminating `;` included.  Stated
\* of the nodes whose tokens the cursor shows: a top-level node is built of
\* the tokens one iteration of the loop consumed, and the expression of an
\* expression statement of all of those but the final `;`.
C8_SpanCoversConsumedTokens ==
  Parsed =>
    LET node == last.ret.val
        first == Position(last.before)
        final == Position(parser) - 1
    IN /\ node.span = Cover(first, final)
       /\ node.node.type = "Expression" =>
            node.node.expression.span = Cover(first, final - 1)

OptionNodes(option) == IF option.some THEN {option.val} ELSE {}

NodesOf(list) == {list[i] : i \in DOMAIN list}

\* the immediate sub-nodes of a node
Children(node) ==
  LET n == node.node
  IN CASE n.type = "Declaration" -> OptionNodes(n.initializer)
       [] n.type = "FunDeclaration" -> {n.body}
       [] n.type = "Block" -> NodesOf(n.declarations)
       [] n.type = "Print" -> {n.expression}
       [] n.type = "If" -> {n.condition, n.if_block} \cup OptionNodes(n.else_block)
       [] n.type = "While" -> {n.condition, n.block}
       [] n.type = "For" ->
            OptionNodes(n.initializer) \cup OptionNodes(n.condition)
            \cup OptionNodes(n.update) \cup {n.block}
       [] n.type = "Return" -> OptionNodes(n.value)
       [] n.type = "Expression" -> {n.expression}
       [] n.type = "Assignment" -> {n.lvalue, n.rvalue}
       [] n.type = "Binary" -> {n.left, n.right}
       [] n.type = "Unary" -> {n.expression}
       [] n.type = "Call" -> {n.target} \cup NodesOf(n.arguments)
       [] OTHER -> {}

RECURSIVE Descendants(_)
\* a node and all the nodes under it
Descendants(node) == {node} \cup UNION {Descendants(c) : c \in Children(node)}

\* every node parse_program has pushed to its program, and all under them
Produced == UNION {Descendants(program[i]) : i \in DOMAIN program}

Covers(outer, inner) == outer.start <= inner.start /\ inner.end <= outer.end

\* C9: the span of every produced node starts no later than it ends and
\* covers the span of each of the node's immediate sub-nodes.
C9_SpanContainment ==
  \A node \in Produced :
    /\ node.span.start <= node.span.end
    /\ \A c \in Children(node) : Covers(node.span, c.span)

\* a unary node over a call with an argument has been produced
C9_Witness ==
  \E node \in Produced :
    /\ node.node.type = "Unary"
    /\ node.node.expression.node.type = "Call"
    /\ Len(node.node.expression.node.arguments) > 0
    /\ node.span.start < node.node.expression.span.start

\* the tiers of the binary operators
Tiers ==
  {{"EqualEqual", "BangEqual"}, {"Less", "LessEqual", "Greater", "GreaterEqual"},
   {"Plus", "Minus"}, {"Star", "Slash"}}

\* the input is e1 op1 e2 op2 e3 ; with both operators of one tier
IsChain ==
  LET kinds == KindsOf(Tokens)
  IN /\ Len(kinds) = 6
     /\ \A i \in {1, 3, 5} : <<kinds[i]>> \in Operands
     /\ \E tier \in Tiers : kinds[2] \in tier /\ kinds[4] \in tier
     /\ kinds[6] = "Semicolon"

\* the node is the primary expression made of the i-th token
IsOperand(node, i) ==
  /\ node.node.type \in {"Variable", "Constant"}
  /\ node.span = Tokens[i].span

\* C10: a chain of two binary operators of one tier associates left:
\* e1 op1 e2 op2 e3 parses to Binary(Binary(e1, op1, e2), op2, e3).
C10_LeftAssociative ==
  (IsChain /\ Iterated) =>
    /\ last.ret.ok
    /\ LET top == last.ret.val.node.expression
       IN /\ top.node.type = "Binary"
          /\ top.node.operator = Tokens[4]
          /\ IsOperand(top.node.right, 5)
          /\ top.node.left.node.type = "Binary"
          /\ top.node.left.node.operator = Tokens[2]
          /\ IsOperand(top.node.left.node.left, 1)
          /\ IsOperand(top.node.left.node.right, 3)

\* `1 - 2 - 3 ;` has been parsed
C10_Witness ==
  /\ Parsed
  /\ KindsOf(Tokens) = <<"NumberLiteral", "Minus", "NumberLiteral", "Minus",
                         "NumberLiteral", "Semicolon">>
  /\ Len(program) = 1

RECURSIVE RightAssignment(_, _, _)
\* the node is e_i = (e_i+1 = ( ... = e_i+n)) over the tokens from the i-th
RightAssignment(node, i, n) ==
  IF n = 0 THEN IsOperand(node, i)
  ELSE /\ node.node.type = "Assignment"
       /\ IsOperand(node.node.lvalue, i)
       /\ node.node.operator = Tokens[i + 1]
       /\ RightAssignment(node.node.rvalue, i + 2, n - 1)

RECURSIVE RightUnary(_, _, _)
\* the node is op_i (op_i+1 ( ... e)) over the tokens from the i-th
RightUnary(node, i, n) ==
  IF n = 0 THEN IsOperand(node, i)
  ELSE /\ node.node.type = "Unary"
       /\ node.node.operator = Tokens[i]
       /\ RightUnary(node.node.expression, i + 1, n - 1)

\* C11: unary and assignment associate right: a chain of assignments
\* e1 = e2 = ... = en parses to Assignment(e1, =, Assignment(e2, =, ...)),
\* the right-hand side of each `=` being an assignment itself, and a run of
\* prefix operators op1 op2 ... e parses to Unary(op1, Unary(op2, ...)).
C11_RightAssociative ==
  Iterated =>
    /\ KindsOf(Tokens) \in AssignmentChains =>
         (last.ret.ok
          /\ RightAssignment(last.ret.val.node.expression, 1,
                             (Len(Tokens) - 2) \div 2))
    /\ KindsOf(Tokens) \in PrefixChains =>
         (last.ret.ok
          /\ RightUnary(last.ret.val.node.expression, 1, Len(Tokens) - 2))

\* `a = b = 3 ;` has been parsed, to an assignment whose right-hand side is
\* an assignment
C11_Witness ==
  /\ Parsed
  /\ KindsOf(Tokens) = <<"IdentifierLiteral", "Equal", "IdentifierLiteral", "Equal",
                         "NumberLiteral", "Semicolon">>
  /\ last.ret.val.node.expression.node.rvalue.node.type = "Assignment"

\* the first iteration of parse_program's loop has just run
FirstIteration == Iterated /\ Position(last.before) = 1

\* the input starts with `fun f (`
IsFunction ==
  /\ Len(Tokens) >= Len(FunctionHeader)
  /\ SubSeq(KindsOf(Tokens), 1, Len(FunctionHeader)) = FunctionHeader

\* the places of the parameter list where a parameter name is required: the
\* first one after `(` unless it holds `)`, and the one after each `,` that
\* follows a parameter name
NameRequired ==
  {i \in 4..(Len(Tokens) + 1) :
     /\ i = 4 => Stream(Tokens, i).kind # "RightParen"
     /\ \A j \in 4..(i - 1) :
          Stream(Tokens, j).kind =
            IF (j - 4) % 2 = 0 THEN "IdentifierLiteral" ELSE "Comma"
     /\ (i - 4) % 2 = 0}

\* those of them that hold no identifier
Offending == {i \in NameRequired : Stream(Tokens, i).kind # "IdentifierLiteral"}

\* C12 as stated: every place of a function's parameter list where a name is
\* required and a non-identifier stands, the first place after `(` included,
\* makes the declaration fail with "Expected parameter name.".
C12_ExpectedParameterName ==
  (FirstIteration /\ IsFunction /\ Offending # {}) =>
    /\ ~last.ret.ok
    /\ last.ret.val.message = "Expected parameter name."

\* C12 as amended: a non-identifier after a `,` of the parameter list makes
\* the declaration fail with "Expected parameter name." at the span of that
\* token; a token that is neither `)` nor an identifier in the first place
\* after `(` makes it fail with "Expected parameter list or ')'." at the span
\* of that token.
C12_ParameterListErrors ==
  (FirstIteration /\ IsFunction /\ Offending # {}) =>
    LET i == Min(Offending)
    IN /\ ~last.ret.ok
       /\ last.ret.val =
            ParsingError(IF i = 4 THEN "Expected parameter list or ')'."
                                  ELSE "Expected parameter name.",
                         Stream(Tokens, i).span)

\* a function declaration has failed on a non-identifier after a `,`
C12_Witness ==
  /\ FirstIteration
  /\ IsFunction
  /\ Offending # {}
  /\ Min(Offending) > 4
  /\ ~last.ret.ok
  /\ last.ret.val.message = "Expected parameter name."

\* a token without its place in the source
TokenShape(t) == [kind |-> t.kind, lit |-> t.lit]

RECURSIVE Shape(_)
\* a node without the spans recorded in it and under it
Shape(node) ==
  LET n == node.node
      Opt(option) == IF option.some THEN Some(Shape(option.val)) ELSE None
      List(list) == [i \in DOMAIN list |-> Shape(list[i])]
  IN CASE n.type = "Declaration" -> Declaration(n.name, Opt(n.initializer))
       [] n.type = "FunDeclaration" ->
            FunDeclaration(n.name,
                           [i \in DOMAIN n.parameters |-> TokenShape(n.parameters[i])],
                           Shape(n.body))
       [] n.type = "Block" -> Block(List(n.declarations), TokenShape(n.rbrace))
       [] n.type = "Print" -> PrintStmt(Shape(n.expression))
       [] n.type = "If" ->
            If(Shape(n.condition), Shape(n.if_block), Opt(n.else_block))
       [] n.type = "While" -> While(Shape(n.condition), Shape(n.block))
       [] n.type = "For" ->
            For(Opt(n.initializer), Opt(n.condition), Opt(n.update), Shape(n.block))
       [] n.type = "Return" -> Return(Opt(n.value))
       [] n.type = "Expression" -> ExpressionStmt(Shape(n.expression))
       [] n.type = "Assignment" ->
            Assignment(Shape(n.lvalue), TokenShape(n.operator), Shape(n.rvalue))
       [] n.type = "Binary" ->
            Binary(Shape(n.left), TokenShape(n.operator), Shape(n.right))
       [] n.type = "Unary" -> Unary(TokenShape(n.operator), Shape(n.expression))
       [] n.type = "Call" -> Call(Shape(n.target), List(n.arguments))
       [] OTHER -> n

\* the tokens of the source that lie within a span
TokensIn(span) ==
  SelectSeq(Tokens, LAMBDA t : span.start <= t.span.start /\ t.span.end <= span.end)

\* the node's span sliced from the source and parsed on its own: a statement
\* by declaration(), an expression by expression()
Reparse(node) ==
  IF node.kind = "Statement"
  THEN declaration(new(TokensIn(node.span)))
  ELSE expression(new(TokensIn(node.span)))

\* parse_program has returned Ok
Succeeded == pc = "done" /\ result.val.ok

\* C13: round-trip idempotence: for every subtree of a successfully parsed
\* program, parsing on their own the tokens its recorded span covers
\* succeeds and yields a subtree of the same structure.
C13_RoundTrip ==
  Succeeded =>
    \A node \in Produced :
      LET again == Reparse(node)
      IN again.ok /\ Shape(again.val) = Shape(node)

RECURSIVE Iterations(_)
\* the top-level declarations of the source from p on, up to end-of-input or
\* the first that fails: of each, the first and the final token its rule
\* consumed and the node it built
Iterations(p) ==
  IF p.current.kind = "Eof" THEN <<>>
  ELSE LET decl == declaration(p)
       IN IF decl.ok
          THEN <<[first |-> Position(p), final |-> Position(decl.p) - 1,
                  node |-> decl.val]>> \o Iterations(decl.p)
          ELSE <<>>

\* C14: on success parse_program returns one node per top-level
\* declaration, in source order: the nodes' spans are pairwise disjoint and
\* increase along the list, and the tokens of the input fall into as many
\* consecutive non-empty runs as there are nodes, each run consumed by the
\* rule that built the node of its place in the list, whose span lies
\* within the run; no token is left out and none belongs to two runs.
C14_OneNodePerDeclaration ==
  Succeeded =>
    LET nodes == result.val.val
        n == Len(nodes)
        its == Iterations(new(Tokens))
    IN /\ Len(its) = n
       /\ \A i \in 1..n :
            /\ nodes[i] = its[i].node
            /\ its[i].first <= its[i].final
            /\ its[i].first = IF i = 1 THEN 1 ELSE its[i - 1].final + 1
            /\ Covers(Cover(its[i].first, its[i].final), nodes[i].span)
            /\ nodes[i].span.start < nodes[i].span.end
       /\ \A i \in 1..n : \A j \in (i + 1)..n :
            nodes[i].span.end <= nodes[j].span.start
       /\ Len(Tokens) = IF n = 0 THEN 0 ELSE its[n].final

\* parse_program has returned two nodes, the second a return statement
C14_Witness ==
  /\ Succeeded
  /\ Len(result.val.val) = 2
  /\ result.val.val[2].node.type = "Return"

\* the place of the first `)` of the input
FirstRightParen ==
  Min({i \in 1..(Len(Tokens) + 1) : Stream(Tokens, i).kind \in {"RightParen", "Eof"}})

\* the identifier tokens between the `(` of `fun f (` and the first `)`
IdentifiersOfHeader ==
  SelectSeq(SubSeq(Tokens, Len(FunctionHeader) + 1, FirstRightParen - 1),
            LAMBDA t : t.kind = "IdentifierLiteral")

\* C15: the parameter list of a parsed function declaration is exactly the
\* identifier tokens between `(` and `)`, in source order, without the
\* commas; `fun f() { }` parses to FunDeclaration{name: f, parameters: [],
\* body: Block{declarations: []}} and `fun f(a, b) { }` has the parameters
\* [a, b].
C15_ParametersInOrder ==
  (FirstIteration /\ IsFunction) =>
    /\ last.ret.ok =>
         /\ last.ret.val.node.type = "FunDeclaration"
         /\ last.ret.val.node.name = Tokens[2].lit
         /\ last.ret.val.node.parameters = IdentifiersOfHeader
         /\ last.ret.val.node.body.node.type = "Block"
    /\ KindsOf(Tokens) = FunctionHeader \o <<"RightParen", "LeftBrace", "RightBrace">> =>
         /\ last.ret.ok
         /\ last.ret.val.node =
              FunDeclaration(Tokens[2].lit, <<>>,
                             new_statement(Block(<<>>, Tokens[6]),
                                           merge(<<Tokens[5].span, Tokens[6].span>>)))
    /\ KindsOf(Tokens) =
         FunctionHeader \o <<"IdentifierLiteral", "Comma", "IdentifierLiteral",
                             "RightParen", "LeftBrace", "RightBrace">> =>
         /\ last.ret.ok
         /\ last.ret.val.node.parameters = <<Tokens[4], Tokens[6]>>

\* a function declaration of two parameters has been parsed
C15_Witness ==
  /\ FirstIteration
  /\ IsFunction
  /\ last.ret.ok
  /\ Len(last.ret.val.node.parameters) = 2
  /\ Len(IdentifiersOfHeader) = 2

\* an iteration of the loop has just ended in a ParsingError
Failed == Iterated /\ ~last.ret.ok

\* C16: when a grammar rule returns a ParsingError for a required token
\* that is absent, the offending token has not been consumed: as the error
\* is returned, before any recovery, `current` is the token whose span the
\* error carries.
C16_OffendingTokenNotConsumed ==
  Failed =>
    /\ last.ret.p.current.span = last.ret.val.span
    /\ last.ret.p.current = Stream(Tokens, Position(last.ret.p))

\* the tier of an infix operator, the looser the lower
Rank(kind) ==
  CASE kind = "Equal" -> 0
    [] kind \in {"EqualEqual", "BangEqual"} -> 1
    [] kind \in {"Less", "LessEqual", "Greater", "GreaterEqual"} -> 2
    [] kind \in {"Plus", "Minus"} -> 3
    [] kind \in {"Star", "Slash"} -> 4

\* the node is the infix node of the i-th token: an Assignment for `=`, a
\* Binary for any other operator
IsInfix(node, i) ==
  /\ node.node.type = IF Tokens[i].kind = "Equal" THEN "Assignment" ELSE "Binary"
  /\ node.node.operator = Tokens[i]

Left(node) == IF node.node.type = "Assignment" THEN node.node.lvalue ELSE node.node.left
Right(node) == IF node.node.type = "Assignment" THEN node.node.rvalue ELSE node.node.right

\* the input is e1 op1 e2 op2 e3 ; with the operators of two tiers
IsMixedChain ==
  LET kinds == KindsOf(Tokens)
  IN /\ Len(kinds) = 6
     /\ \A i \in {1, 3, 5} : <<kinds[i]>> \in Operands
     /\ \A i \in {2, 4} : kinds[i] \in InfixOperators
     /\ Rank(kinds[2]) # Rank(kinds[4])
     /\ kinds[6] = "Semicolon"

\* the input is u e1 op e2 ; with u a prefix operator
IsPrefixedInfix ==
  LET kinds == KindsOf(Tokens)
  IN /\ Len(kinds) = 5
     /\ kinds[1] \in {"Minus", "Bang"}
     /\ \A i \in {2, 4} : <<kinds[i]>> \in Operands
     /\ kinds[3] \in InfixOperators
     /\ kinds[5] = "Semicolon"

\* the input is u f ( e ) ; with u a prefix operator
IsPrefixedCall ==
  LET kinds == KindsOf(Tokens)
  IN /\ Len(kinds) = 6
     /\ kinds[1] \in {"Minus", "Bang"}
     /\ kinds[2] = "IdentifierLiteral" /\ kinds[3] = "LeftParen"
     /\ <<kinds[4]>> \in Operands
     /\ kinds[5] = "RightParen" /\ kinds[6] = "Semicolon"

\* C17: precedence follows the tiers assignment < equality < comparison <
\* addition < multiplication < unary < call: of two neighbouring operators
\* of different tiers the tighter one becomes a sub-node of the looser one,
\* whichever comes first in the source: e1 op1 e2 op2 e3 parses to
\* op1(e1, op2(e2, e3)) when op1 is the looser and to op2(op1(e1, e2), e3)
\* when op2 is; u e1 op e2 parses to op(Unary(u, e1), e2); u f(e) parses to
\* Unary(u, Call(f, [e])).
C17_Precedence ==
  Iterated =>
    /\ IsMixedChain =>
         (last.ret.ok
          /\ LET top == last.ret.val.node.expression
             IN IF Rank(Tokens[2].kind) < Rank(Tokens[4].kind)
                THEN /\ IsInfix(top, 2)
                     /\ IsOperand(Left(top), 1)
                     /\ IsInfix(Right(top), 4)
                     /\ IsOperand(Left(Right(top)), 3)
                     /\ IsOperand(Right(Right(top)), 5)
                ELSE /\ IsInfix(top, 4)
                     /\ IsOperand(Right(top), 5)
                     /\ IsInfix(Left(top), 2)
                     /\ IsOperand(Left(Left(top)), 1)
                     /\ IsOperand(Right(Left(top)), 3))
    /\ IsPrefixedInfix =>
         (last.ret.ok
          /\ LET top == last.ret.val.node.expression
             IN /\ IsInfix(top, 3)
                /\ IsOperand(Right(top), 4)
                /\ Left(top).node.type = "Unary"
                /\ Left(top).node.operator = Tokens[1]
                /\ IsOperand(Left(top).node.expression, 2))
    /\ IsPrefixedCall =>
         (last.ret.ok
          /\ LET top == last.ret.val.node.expression
             IN /\ top.node.type = "Unary"
                /\ top.node.operator = Tokens[1]
                /\ top.node.expression.node.type = "Call"
                /\ IsOperand(top.node.expression.node.target, 2)
                /\ Len(top.node.expression.node.arguments) = 1
                /\ IsOperand(top.node.expression.node.arguments[1], 4))

\* `1 * 2 + 3 ;` has been parsed, the `+` on top
C17_Witness ==
  /\ Parsed
  /\ KindsOf(Tokens) = <<"NumberLiteral", "Star", "NumberLiteral", "Plus",
                         "NumberLiteral", "Semicolon">>
  /\ last.ret.val.node.expression.node.operator.kind = "Plus"

\* the input starts with a call f ( args ) of an identifier
IsCall ==
  LET kinds == KindsOf(Tokens)
  IN /\ Len(kinds) >= 3
     /\ kinds[1] = "IdentifierLiteral"
     /\ kinds[2] = "LeftParen"
     /\ FirstRightParen <= Len(kinds)
     /\ SubSeq(kinds, 3, FirstRightParen - 1) \in Arguments

\* C18: call syntax does not chain: the call rule attaches one argument list
\* to a primary, and a `(` right after the call's `)` is not consumed by the
\* expression rules: the statement f(args)(args); fails with "Expected ';'
\* after expression" at the span of the second `(`, which is left as
\* `current`; f(); and f(a, b); parse to Call nodes of f with the arguments
\* [] and [a, b], in order.
C18_CallDoesNotChain ==
  (FirstIteration /\ IsCall) =>
    LET close == FirstRightParen
    IN /\ Stream(Tokens, close + 1).kind = "LeftParen" =>
            /\ ~last.ret.ok
            /\ last.ret.val =
                 ParsingError("Expected ';' after expression", Tokens[close + 1].span)
            /\ last.ret.p.current = Tokens[close + 1]
       /\ (Stream(Tokens, close + 1).kind = "Semicolon" /\ Len(Tokens) = close + 1) =>
            /\ last.ret.ok
            /\ LET node == last.ret.val.node.expression
               IN /\ node.node.type = "Call"
                  /\ IsOperand(node.node.target, 1)
                  /\ Len(node.node.arguments) = (close - 2) \div 2
                  /\ \A j \in DOMAIN node.node.arguments :
                       IsOperand(node.node.arguments[j], 1 + 2 * j)

\* `f ( 1 ) ( 2 ) ;` has failed at the second `(`
C18_Witness ==
  /\ FirstIteration
  /\ KindsOf(Tokens) = <<"IdentifierLiteral", "LeftParen", "NumberLiteral", "RightParen",
                         "LeftParen", "NumberLiteral", "RightParen", "Semicolon">>
  /\ ~last.ret.ok
  /\ last.ret.val.span = Tokens[5].span

\* the input starts with `for (` and has a `)`
IsFor ==
  /\ Len(Tokens) >= 2
  /\ SubSeq(KindsOf(Tokens), 1, 2) = <<"For", "LeftParen">>
  /\ FirstRightParen <= Len(Tokens)

\* the places of the `;` between the `(` and the `)` of the header
HeaderSemicolons == {i \in 3..(FirstRightParen - 1) : Tokens[i].kind = "Semicolon"}

\* C19: the header of a for statement consumes exactly two `;` between `(`
\* and `)`, whichever clauses are there: the initializer is absent iff a `;`
\* follows the `(` (and that `;` is consumed), else it is a variable
\* declaration or an expression statement that consumes its own `;`; the
\* condition is absent iff the second `;` follows the first at once; the
\* update is absent iff `)` follows the second `;`.  Every combination of
\* clauses parses when the body is a statement, and `for (;;) s` yields
\* For{None, None, None, s}.
C19_ForHeader ==
  (FirstIteration /\ IsFor) =>
    /\ last.ret.ok =>
         /\ Cardinality(HeaderSemicolons) = 2
         /\ LET for == last.ret.val.node
                first == Min(HeaderSemicolons)
                second == Max(HeaderSemicolons)
            IN /\ for.type = "For"
               /\ for.initializer.some <=> first # 3
               /\ for.initializer.some =>
                    for.initializer.val.node.type =
                      IF Tokens[3].kind = "Var" THEN "Declaration" ELSE "Expression"
               /\ for.condition.some <=> second # first + 1
               /\ for.update.some <=> FirstRightParen # second + 1
               /\ for.block.span.start = Tokens[FirstRightParen + 1].span.start
    /\ (KindsOf(Tokens) \in ForStatements
        /\ Tokens[FirstRightParen + 1].kind # "Var") => last.ret.ok
    /\ KindsOf(Tokens) = <<"For", "LeftParen", "Semicolon", "Semicolon", "RightParen",
                           "IdentifierLiteral", "Semicolon">> =>
         /\ last.ret.ok
         /\ last.ret.val.node =
              For(None, None, None,
                  new_statement(
                    ExpressionStmt(
                      new_expression(Variable(Tokens[6].lit), Tokens[6].span)),
                    merge(<<Tokens[6].span, Tokens[7].span>>)))

\* a for statement with all three clauses has been parsed
C19_Witness ==
  /\ FirstIteration
  /\ IsFor
  /\ last.ret.ok
  /\ last.ret.val.node.initializer.some
  /\ last.ret.val.node.condition.some
  /\ last.ret.val.node.update.some

\* the places of the `else` keywords of the input
Elses == {i \in 1..Len(Tokens) : Tokens[i].kind = "Else"}

\* C20: an `else` attaches to the nearest preceding `if` that has none: in
\* if (a) if (b) x else y the else-branch is the inner If's and the outer
\* If has none (it gets the second `else`, when there is one); in
\* if (a) x else if (b) y else z the second If is the else-branch of the
\* first, and the last else-branch is the second If's.
C20_ElseAttachesToNearestIf ==
  FirstIteration =>
    /\ KindsOf(Tokens) \in NestedIfs =>
         (last.ret.ok
          /\ LET outer == last.ret.val.node
                 inner == outer.if_block.node
             IN /\ outer.type = "If"
                /\ inner.type = "If"
                /\ inner.else_block.some <=> Cardinality(Elses) >= 1
                /\ inner.else_block.some =>
                     inner.else_block.val.span.start =
                       Tokens[Min(Elses) + 1].span.start
                /\ outer.else_block.some <=> Cardinality(Elses) = 2
                /\ outer.else_block.some =>
                     outer.else_block.val.span.start =
                       Tokens[Max(Elses) + 1].span.start)
    /\ KindsOf(Tokens) \in ElseIfs =>
         (last.ret.ok
          /\ LET outer == last.ret.val.node
             IN /\ outer.type = "If"
                /\ outer.if_block.node.type # "If"
                /\ outer.else_block.some
                /\ outer.else_block.val.node.type = "If"
                /\ outer.else_block.val.span.start = Tokens[Min(Elses) + 1].span.start
                /\ ~outer.else_block.val.node.if_block.node.type = "If"
                /\ outer.else_block.val.node.else_block.some
                     <=> Cardinality(Elses) = 2)

\* if ( a ) if ( b ) x ; else y ; has been parsed: the else-branch is the
\* inner If's
C20_Witness ==
  /\ FirstIteration
  /\ KindsOf(Tokens) =
       IfHeader \o IfHeader
       \o <<"IdentifierLiteral", "Semicolon", "Else", "IdentifierLiteral", "Semicolon">>
  /\ last.ret.ok
  /\ last.ret.val.node.if_block.node.else_block.some
  /\ ~last.ret.val.node.else_block.some

====
